---------------------------- MODULE Spec2Model ----------------------------
(***************************************************************************)
(* A model of the two ComfyUI nodes of this repository:                    *)
(*                                                                         *)
(*   Code2PromptNode  (src/Nodes/Code2Prompt.py)  clones a repository into *)
(*       temp_repos/<stem>, walks it, filters and reads files, renders a   *)
(*       report and removes the clone.                                     *)
(*   NXMonorepoNode   (src/Nodes/NXMonorepo.py)   assembles a prompt from  *)
(*       templates and optional fields.                                    *)
(*                                                                         *)
(* Text is modelled as a sequence of one-character strings, so that glob   *)
(* matching, suffix extraction, splitting and slicing are computed as the  *)
(* Python code computes them.                                              *)
(***************************************************************************)
EXTENDS Integers, Sequences, FiniteSets, TLC

VARIABLES
    pc,              \* pc[p]: position of invocation p inside Code2PromptNode.execute
    args,            \* args[p]: the arguments execute was called with
    remote,          \* remote[p]: what git finds at args[p].repository_url / branch
    fs,              \* fs[d]: the directory temp_repos/<d> on disk
    include_list,    \* include_list[p], exclude_list[p]: the parsed pattern lists
    exclude_list,
    files,           \* files[p]: the list glob.glob returned
    idx,             \* idx[p]: index in files[p] of the next loop iteration
    analyzed_files,  \* analyzed_files[p]: the records accepted so far
    output,          \* output[p]: the rendered report (before cleanup)
    result,          \* result[p]: how execute ended
    filt,            \* one call of should_process_file: arguments and return value
    nx               \* one call of NXMonorepoNode.execute: arguments and prompt

vars == << pc, args, remote, fs, include_list, exclude_list, files, idx,
           analyzed_files, output, result, filt, nx >>

rendererVars == << pc, args, remote, fs, include_list, exclude_list, files, idx,
                   analyzed_files, output, result >>

-----------------------------------------------------------------------------
(* Bounds of the model. *)

\* Longest enumeration glob.glob returns in the model.
MaxEntries == 3

\* Largest max_files drawn (the node accepts 1..1000).
MaxFilesBound == 2

-----------------------------------------------------------------------------
(* Program constants. *)

\* os.path.getsize(filepath) / 1024
BytesPerKb == 1024

\* file['content'][:200]
PreviewLen == 200

IGNORE_PATTERNS ==
  << <<"n", "o", "d", "e", "_", "m", "o", "d", "u", "l", "e", "s", "/", "*", "*">>,
     <<"v", "e", "n", "v", "/", "*", "*">>,
     <<".", "g", "i", "t", "/", "*", "*">>,
     <<"*", "*", "/", "*", ".", "m", "i", "n", ".", "j", "s">>,
     <<"*", "*", "/", "*", ".", "m", "i", "n", ".", "c", "s", "s">>,
     <<"*", "*", "/", "d", "i", "s", "t", "/", "*", "*">>,
     <<"*", "*", "/", "b", "u", "i", "l", "d", "/", "*", "*">>,
     <<"*", "*", "/", "_", "_", "p", "y", "c", "a", "c", "h", "e", "_", "_", "/", "*", "*">>,
     <<".", "e", "n", "v", "*">>,
     <<"*", ".", "p", "y", "c">>,
     <<"*", ".", "p", "y", "o">>,
     <<"*", ".", "p", "y", "d">> >>

SUPPORTED_EXTENSIONS ==
  { <<".", "j", "s">>, <<".", "j", "s", "x">>, <<".", "t", "s">>,
    <<".", "t", "s", "x">>, <<".", "h", "t", "m", "l">>, <<".", "c", "s", "s">>,
    <<".", "s", "c", "s", "s">>, <<".", "s", "a", "s", "s">>,
    <<".", "p", "y">>, <<".", "j", "a", "v", "a">>, <<".", "g", "o">>,
    <<".", "r", "b">>, <<".", "p", "h", "p">>, <<".", "c", "s">>,
    <<".", "j", "s", "o", "n">>, <<".", "y", "m", "l">>,
    <<".", "y", "a", "m", "l">>, <<".", "t", "o", "m", "l">>,
    <<".", "i", "n", "i">>,
    <<".", "m", "d">>, <<".", "r", "s", "t">>,
    <<".", "s", "h">>, <<".", "b", "a", "s", "h">>,
    <<".", "s", "q", "l">>, <<".", "g", "r", "a", "p", "h", "q", "l">> }

-----------------------------------------------------------------------------
(* Library functions the code calls, computed as Python computes them.     *)

\* str.rfind(c), 1-based; 0 when c does not occur.
rfind(s, c) ==
    LET hits == { i \in 1..Len(s) : s[i] = c }
    IN  IF hits = {} THEN 0 ELSE CHOOSE i \in hits : \A j \in hits : j <= i

\* PurePath.name: the final path component.
path_name(s) == SubSeq(s, rfind(s, "/") + 1, Len(s))

\* PurePath.parent, as a string: everything before the final component.
path_parent(s) ==
    IF rfind(s, "/") = 0 THEN <<".">> ELSE SubSeq(s, 1, rfind(s, "/") - 1)

\* PurePath.suffix: name[i:] where i = name.rfind('.') and 0 < i < len(name) - 1
\* (0-based), else ''.
path_suffix(s) ==
    LET name == path_name(s)
        i    == rfind(name, ".")
    IN  IF 1 < i /\ i < Len(name) THEN SubSeq(name, i, Len(name)) ELSE <<>>

\* PurePath.stem: the name without its suffix.
path_stem(s) ==
    LET name == path_name(s)
    IN  SubSeq(name, 1, Len(name) - Len(path_suffix(s)))

\* fnmatch.fnmatch on POSIX (normcase is the identity): '*' matches any run of
\* characters, '/' included; '?' matches one character; anything else matches
\* itself.  The whole name must match.  Patterns of the model hold no '['.
RECURSIVE fnmatch(_, _)
fnmatch(name, pat) ==
    IF pat = <<>> THEN name = <<>>
    ELSE IF Head(pat) = "*"
         THEN \/ fnmatch(name, Tail(pat))
              \/ name # <<>> /\ fnmatch(Tail(name), pat)
         ELSE /\ name # <<>>
              /\ Head(pat) = "?" \/ Head(pat) = Head(name)
              /\ fnmatch(Tail(name), Tail(pat))

Whitespace == { " ", "\t", "\r", "\n" }

\* str.strip()
RECURSIVE lstrip(_)
lstrip(s) == IF s # <<>> /\ Head(s) \in Whitespace THEN lstrip(Tail(s)) ELSE s

RECURSIVE rstrip(_)
rstrip(s) ==
    IF s # <<>> /\ s[Len(s)] \in Whitespace
    THEN rstrip(SubSeq(s, 1, Len(s) - 1)) ELSE s

strip(s) == rstrip(lstrip(s))

\* str.split('\n'): always at least one piece.
RECURSIVE split_lines(_)
split_lines(s) ==
    LET nl == { i \in 1..Len(s) : s[i] = "\n" }
    IN  IF nl = {} THEN << s >>
        ELSE LET i == CHOOSE k \in nl : \A j \in nl : k <= j
             IN  << SubSeq(s, 1, i - 1) >> \o split_lines(SubSeq(s, i + 1, Len(s)))

\* len(content.splitlines()) for content whose only line break is '\n'.
count_lines(content) ==
    Cardinality({ i \in 1..Len(content) : content[i] = "\n" })
    + (IF content # <<>> /\ content[Len(content)] # "\n" THEN 1 ELSE 0)

-----------------------------------------------------------------------------
(* Code2PromptNode.should_process_file                                     *)

\* for pattern in patterns: if fnmatch(filepath, pattern): return ... ;
\* also any(fnmatch(filepath, pattern) for pattern in patterns)
RECURSIVE any_fnmatch(_, _)
any_fnmatch(filepath, patterns) ==
    IF patterns = <<>> THEN FALSE
    ELSE IF fnmatch(filepath, Head(patterns)) THEN TRUE
    ELSE any_fnmatch(filepath, Tail(patterns))

\* A variant that looks at the include list before the exclusions.
should_process_file_include_first(filepath, include_patterns, exclude_patterns) ==
    IF include_patterns # <<>> /\ any_fnmatch(filepath, include_patterns)
    THEN TRUE
    ELSE IF any_fnmatch(filepath, IGNORE_PATTERNS \o exclude_patterns)
    THEN FALSE
    ELSE path_suffix(filepath) \in SUPPORTED_EXTENSIONS

should_process_file(filepath, include_patterns, exclude_patterns) ==
    IF any_fnmatch(filepath, IGNORE_PATTERNS \o exclude_patterns)
    THEN FALSE
    ELSE IF include_patterns # <<>>
    THEN any_fnmatch(filepath, include_patterns)
    ELSE path_suffix(filepath) \in SUPPORTED_EXTENSIONS

-----------------------------------------------------------------------------
(* The world of the renderer: invocations, remote repositories, the disk.  *)

\* Invocations of Code2PromptNode.execute.
Procs == { 1, 2 }

\* What can sit in a clone.  bytes is what os.path.getsize reports; stat says
\* whether getsize succeeds; read says how open/read ends.  "docs" is an empty
\* directory (an uninitialised submodule).
Catalog ==
  { [path |-> <<"a", ".", "p", "y">>,           isfile |-> TRUE,  bytes |-> PreviewLen,
     stat |-> "ok",    read |-> "ok"],
    [path |-> <<"b", ".", "m", "d">>,           isfile |-> TRUE,  bytes |-> PreviewLen + 1,
     stat |-> "ok",    read |-> "ok"],
    [path |-> <<"b", "i", "g", ".", "p", "y">>, isfile |-> TRUE,  bytes |-> BytesPerKb + 1,
     stat |-> "ok",    read |-> "ok"],
    [path |-> <<"b", "i", "n", ".", "p", "y">>, isfile |-> TRUE,  bytes |-> 10,
     stat |-> "ok",    read |-> "UnicodeDecodeError"],
    [path |-> <<"g", "o", "n", "e", ".", "p", "y">>, isfile |-> TRUE, bytes |-> 10,
     stat |-> "OSError", read |-> "ok"],
    [path |-> <<"t", ".", "p", "y", "c">>,      isfile |-> TRUE,  bytes |-> 5,
     stat |-> "ok",    read |-> "ok"],
    [path |-> <<"d", "o", "c", "s">>,           isfile |-> FALSE, bytes |-> 0,
     stat |-> "ok",    read |-> "IsADirectoryError"] }

\* The text f.read() returns for an entry: as many characters as bytes (ASCII),
\* a line break every 50th character.
FileContent(e) ==
    [ i \in 1..e.bytes |-> IF i % 50 = 0 THEN "\n" ELSE Head(e.path) ]

Range(s) == { s[i] : i \in DOMAIN s }

\* Enumerations glob can return: up to n distinct catalog entries, any order.
RECURSIVE Enumerations(_)
Enumerations(n) ==
    IF n = 0 THEN { <<>> }
    ELSE LET shorter == Enumerations(n - 1)
         IN  shorter \cup
             UNION { { Append(s, e) : e \in Catalog \ Range(s) } :
                     s \in { t \in shorter : Len(t) = n - 1 } }

\* What git finds at (repository_url, branch): nothing it can clone, or a tree.
Unreachable == [reachable |-> FALSE, entries |-> <<>>]

Remotes ==
    { Unreachable } \cup
    { [reachable |-> TRUE, entries |-> s] : s \in Enumerations(MaxEntries) }

\* A directory temp_repos/<d>: whether it exists, which invocation made it or
\* filled it (0: left by an earlier run), and the entries in it in glob order.
Absent == [exists |-> FALSE, owner |-> 0, entries |-> <<>>]

Leftover == [exists |-> TRUE, owner |-> 0, entries |-> <<>>]

Urls ==
    { <<"a", "/", "r", ".", "g", "i", "t">>,
      <<"b", "/", "r", ".", "g", "i", "t">>,
      <<"a", "/", "s", ".", "g", "i", "t">> }

\* temp_dir = os.path.join(os.getcwd(), 'temp_repos', Path(repo_url).stem);
\* the working directory and 'temp_repos' are one element of the text.
temp_dir(repo_url) == << "temp_repos", "/" >> \o path_stem(repo_url)

TempDirs == { temp_dir(u) : u \in Urls }

\* os.path.join(repo_dir, rel) and os.path.relpath(filepath, repo_dir)
path_join(dir, rel) == dir \o << "/" >> \o rel

relpath(filepath, dir) == SubSeq(filepath, Len(dir) + 2, Len(filepath))

\* The entries of directory d that carry the relative path rel, live.
OnDisk(d, rel) ==
    IF fs[d].exists THEN { e \in Range(fs[d].entries) : e.path = rel } ELSE {}

-----------------------------------------------------------------------------
(* Code2PromptNode.analyze_file                                            *)

\* The record analyze_file builds; size is kept in bytes (file_size * 1024).
file_record(filepath, e) ==
    [ path      |-> filepath,
      size      |-> e.bytes,
      content   |-> FileContent(e),
      lines     |-> count_lines(FileContent(e)),
      extension |-> path_suffix(filepath) ]

\* A variant without the size check.
analyze_file_no_size_check(filepath, e, max_size_kb) ==
    IF e.stat # "ok" THEN [exc |-> e.stat, ret |-> <<>>]
    ELSE IF e.read # "ok" THEN [exc |-> "", ret |-> <<>>]
    ELSE [exc |-> "", ret |-> << file_record(filepath, e) >>]

\* exc: the exception that leaves analyze_file ("" when it returns);
\* ret: <<>> for None, << record >> otherwise.  e is the file at filepath.
analyze_file(filepath, e, max_size_kb) ==
    IF e.stat # "ok"
    THEN [exc |-> e.stat, ret |-> <<>>]                 \* getsize raises, outside try
    ELSE IF e.bytes > max_size_kb * BytesPerKb
    THEN [exc |-> "", ret |-> <<>>]                     \* return None
    ELSE IF e.read # "ok"
    THEN [exc |-> "", ret |-> <<>>]                     \* except Exception: return None
    ELSE [exc |-> "", ret |-> << file_record(filepath, e) >>]

-----------------------------------------------------------------------------
(* The three renderings.  A report is a sequence of items.                 *)

RECURSIVE dir_structure(_)
dir_structure(fls) ==
    IF fls = <<>> THEN {}
    ELSE { path_parent(Head(fls).path) } \cup dir_structure(Tail(fls))

\* file_types[ext] = file_types.get(ext, 0) + 1, in insertion order.
RECURSIVE file_types(_)
file_types(fls) ==
    IF fls = <<>> THEN <<>>
    ELSE LET before == file_types(SubSeq(fls, 1, Len(fls) - 1))
             ext    == fls[Len(fls)].extension
         IN  IF \E i \in DOMAIN before : before[i].ext = ext
             THEN [ i \in DOMAIN before |->
                      IF before[i].ext = ext
                      THEN [before[i] EXCEPT !.count = @ + 1] ELSE before[i] ]
             ELSE Append(before, [ext |-> ext, count |-> 1])

\* sorted(dir_structure) is represented by the set it sorts.
generate_architecture_summary(fls) ==
    << [k |-> "title", text |-> "# Repository Architecture Summary"],
       [k |-> "dirs",  dirs |-> dir_structure(fls)],
       [k |-> "types", types |-> file_types(fls)] >>

generate_detailed_prompt(fls) ==
    << [k |-> "title", text |-> "# Repository Code Analysis"] >> \o
    [ i \in DOMAIN fls |->
        [ k |-> "file", path |-> fls[i].path, size |-> fls[i].size,
          lines |-> fls[i].lines,
          lang |-> SubSeq(fls[i].extension, 2, Len(fls[i].extension)),
          content |-> fls[i].content ] ]

\* file['content'][:200] + "..." if len(file['content']) > 200 else file['content']
content_preview(content) ==
    IF Len(content) > PreviewLen
    THEN SubSeq(content, 1, PreviewLen) \o << ".", ".", "." >>
    ELSE content

\* A variant that cuts at 200 characters or more.
generate_summary_prompt_cut_at_limit(fls) ==
    << [k |-> "title", text |-> "# Repository Summary"] >> \o
    [ i \in DOMAIN fls |->
        [ k |-> "preview", path |-> fls[i].path, size |-> fls[i].size,
          lines |-> fls[i].lines,
          lang |-> SubSeq(fls[i].extension, 2, Len(fls[i].extension)),
          content |-> IF Len(fls[i].content) >= PreviewLen
                      THEN SubSeq(fls[i].content, 1, PreviewLen) \o << ".", ".", "." >>
                      ELSE fls[i].content ] ]

generate_summary_prompt(fls) ==
    << [k |-> "title", text |-> "# Repository Summary"] >> \o
    [ i \in DOMAIN fls |->
        [ k |-> "preview", path |-> fls[i].path, size |-> fls[i].size,
          lines |-> fls[i].lines,
          lang |-> SubSeq(fls[i].extension, 2, Len(fls[i].extension)),
          content |-> content_preview(fls[i].content) ] ]

\* Lines 199-208 of execute: the format switch and the context notes.
render(a, fls) ==
    LET body == IF a.output_format = "architecture"
                THEN generate_architecture_summary(fls)
                ELSE IF a.output_format = "summary"
                THEN generate_summary_prompt(fls)
                ELSE generate_detailed_prompt(fls)
    IN  IF a.context_notes # <<>>
        THEN << [k |-> "context", text |-> a.context_notes] >> \o body
        ELSE body

-----------------------------------------------------------------------------
(* Code2PromptNode.execute                                                 *)

\* Exception: what "except Exception" catches.
ExceptionClasses ==
    { "GitCommandError", "OSError", "FileNotFoundError", "UnicodeDecodeError",
      "IsADirectoryError" }

\* A variant whose handler catches only the OSError family.
execute_except_oserror_only(exc) ==
    IF exc \in { "OSError", "FileNotFoundError", "IsADirectoryError" }
    THEN [kind |-> "returned", value |-> << << [k |-> "error", exc |-> exc] >> >>]
    ELSE [kind |-> "raised", value |-> <<>>]

\* except Exception as e: return (f"Error processing repository: {str(e)}",)
execute_except(exc) ==
    IF exc \in ExceptionClasses
    THEN [kind |-> "returned", value |-> << << [k |-> "error", exc |-> exc] >> >>]
    ELSE [kind |-> "raised", value |-> <<>>]

\* return (output,)
execute_return(out) == [kind |-> "returned", value |-> << out >>]

NotReturned == [kind |-> "none", value |-> <<>>]

\* [p.strip() for p in patterns.split('\n') if p.strip()]
parse_patterns(text) ==
    LET pieces   == split_lines(text)
        stripped == [ i \in DOMAIN pieces |-> strip(pieces[i]) ]
    IN  SelectSeq(stripped, LAMBDA q : q # <<>>)

\* A variant that breaks one iteration late.
loop_limit_off_by_one(n_analyzed, max_files) == n_analyzed > max_files

\* A variant that never breaks.
loop_limit_never(n_analyzed, max_files) == FALSE

\* if len(analyzed_files) >= max_files: break
loop_limit(n_analyzed, max_files) == n_analyzed >= max_files

\* The three formats the node offers, and a value outside them.
Formats == { "detailed", "summary", "architecture", "other" }

NoArgs ==
    [ repository_url |-> <<>>, max_files |-> 1, max_file_size_kb |-> 1,
      output_format |-> "detailed", branch |-> "main",
      include_patterns |-> <<>>, exclude_patterns |-> <<>>, context_notes |-> <<>> ]

repo_dir(p) == temp_dir(args[p].repository_url)

\* The call, and lines 180-181.
Invoke(p, A, R) ==
    /\ pc[p] = "idle"
    /\ \E a \in A, r \in R :
         /\ args' = [args EXCEPT ![p] = a]
         /\ remote' = [remote EXCEPT ![p] = r]
         /\ include_list' = [include_list EXCEPT ![p] = parse_patterns(a.include_patterns)]
         /\ exclude_list' = [exclude_list EXCEPT ![p] = parse_patterns(a.exclude_patterns)]
    /\ pc' = [pc EXCEPT ![p] = "clone_exists"]
    /\ UNCHANGED << fs, files, idx, analyzed_files, output, result, filt, nx >>

\* An exception reaches the handler of execute: nothing else runs.
Raise(p, exc) ==
    /\ pc' = [pc EXCEPT ![p] = "done"]
    /\ result' = [result EXCEPT ![p] = execute_except(exc)]

\* clone_repository, line 64: if os.path.exists(temp_dir)
CloneExists(p) ==
    /\ pc[p] = "clone_exists"
    /\ pc' = [pc EXCEPT ![p] = IF fs[repo_dir(p)].exists THEN "clone_rmtree"
                                ELSE "clone_makedirs"]
    /\ UNCHANGED << args, remote, fs, include_list, exclude_list, files, idx,
                    analyzed_files, output, result, filt, nx >>

\* clone_repository, line 66: shutil.rmtree(temp_dir)
CloneRmtree(p) ==
    /\ pc[p] = "clone_rmtree"
    /\ IF fs[repo_dir(p)].exists
       THEN /\ fs' = [fs EXCEPT ![repo_dir(p)] = Absent]
            /\ pc' = [pc EXCEPT ![p] = "clone_makedirs"]
            /\ UNCHANGED result
       ELSE /\ Raise(p, "FileNotFoundError")
            /\ UNCHANGED fs
    /\ UNCHANGED << args, remote, include_list, exclude_list, files, idx,
                    analyzed_files, output, filt, nx >>

\* clone_repository, line 68: os.makedirs(temp_dir, exist_ok=True)
CloneMakedirs(p) ==
    /\ pc[p] = "clone_makedirs"
    /\ fs' = IF fs[repo_dir(p)].exists THEN fs
             ELSE [fs EXCEPT ![repo_dir(p)] =
                     [exists |-> TRUE, owner |-> p, entries |-> <<>>]]
    /\ pc' = [pc EXCEPT ![p] = "clone_from"]
    /\ UNCHANGED << args, remote, include_list, exclude_list, files, idx,
                    analyzed_files, output, result, filt, nx >>

\* clone_repository, line 69: git.Repo.clone_from(repo_url, temp_dir, branch=branch).
\* git refuses an unreachable remote and a destination that is not empty; a
\* failed clone leaves the directory makedirs created.
CloneFrom(p) ==
    /\ pc[p] = "clone_from"
    /\ IF ~remote[p].reachable \/ fs[repo_dir(p)].entries # <<>>
       THEN /\ Raise(p, "GitCommandError")
            /\ UNCHANGED fs
       ELSE /\ fs' = [fs EXCEPT ![repo_dir(p)] =
                        [exists |-> TRUE, owner |-> p, entries |-> remote[p].entries]]
            /\ pc' = [pc EXCEPT ![p] = "glob"]
            /\ UNCHANGED result
    /\ UNCHANGED << args, remote, include_list, exclude_list, files, idx,
                    analyzed_files, output, filt, nx >>

\* Line 188: glob.glob(os.path.join(repo_dir, '**/*'), recursive=True) builds
\* the whole list before the loop starts; a missing directory lists as empty.
Glob(p) ==
    /\ pc[p] = "glob"
    /\ files' = [files EXCEPT ![p] =
                   IF fs[repo_dir(p)].exists
                   THEN [ i \in DOMAIN fs[repo_dir(p)].entries |->
                            path_join(repo_dir(p), fs[repo_dir(p)].entries[i].path) ]
                   ELSE <<>>]
    /\ idx' = [idx EXCEPT ![p] = 1]
    /\ analyzed_files' = [analyzed_files EXCEPT ![p] = <<>>]
    /\ pc' = [pc EXCEPT ![p] = "loop"]
    /\ UNCHANGED << args, remote, fs, include_list, exclude_list, output, result,
                    filt, nx >>

\* Lines 188-190: the list is exhausted, or the break.
LoopExit(p) ==
    /\ pc[p] = "loop"
    /\ \/ idx[p] > Len(files[p])
       \/ loop_limit(Len(analyzed_files[p]), args[p].max_files)
    /\ pc' = [pc EXCEPT ![p] = "generate"]
    /\ UNCHANGED << args, remote, fs, include_list, exclude_list, files, idx,
                    analyzed_files, output, result, filt, nx >>

\* Lines 192-196: one iteration of the loop body.
LoopBody(p) ==
    /\ pc[p] = "loop"
    /\ idx[p] <= Len(files[p])
    /\ ~loop_limit(Len(analyzed_files[p]), args[p].max_files)
    /\ LET filepath == files[p][idx[p]]
           rel_path == relpath(filepath, repo_dir(p))
           found    == OnDisk(repo_dir(p), rel_path)
       IN  IF /\ \E e \in found : e.isfile
              /\ should_process_file(rel_path, include_list[p], exclude_list[p])
           THEN LET e == CHOOSE x \in found : x.isfile
                    r == analyze_file(filepath, e, args[p].max_file_size_kb)
                IN  IF r.exc # ""
                    THEN /\ Raise(p, r.exc)
                         /\ UNCHANGED << idx, analyzed_files >>
                    ELSE /\ analyzed_files' =
                              [analyzed_files EXCEPT ![p] = @ \o r.ret]
                         /\ idx' = [idx EXCEPT ![p] = @ + 1]
                         /\ UNCHANGED << pc, result >>
           ELSE /\ idx' = [idx EXCEPT ![p] = @ + 1]
                /\ UNCHANGED << pc, result, analyzed_files >>
    /\ UNCHANGED << args, remote, fs, include_list, exclude_list, files, output,
                    filt, nx >>

\* Lines 199-208.
Generate(p) ==
    /\ pc[p] = "generate"
    /\ output' = [output EXCEPT ![p] = render(args[p], analyzed_files[p])]
    /\ pc' = [pc EXCEPT ![p] = "cleanup"]
    /\ UNCHANGED << args, remote, fs, include_list, exclude_list, files, idx,
                    analyzed_files, result, filt, nx >>

\* Lines 211-214: shutil.rmtree(repo_dir); return (output,)
Cleanup(p) ==
    /\ pc[p] = "cleanup"
    /\ IF fs[repo_dir(p)].exists
       THEN /\ fs' = [fs EXCEPT ![repo_dir(p)] = Absent]
            /\ pc' = [pc EXCEPT ![p] = "done"]
            /\ result' = [result EXCEPT ![p] = execute_return(output[p])]
       ELSE /\ Raise(p, "FileNotFoundError")
            /\ UNCHANGED fs
    /\ UNCHANGED << args, remote, include_list, exclude_list, files, idx,
                    analyzed_files, output, filt, nx >>

Step(p) ==
    \/ CloneExists(p)
    \/ CloneRmtree(p)
    \/ CloneMakedirs(p)
    \/ CloneFrom(p)
    \/ Glob(p)
    \/ LoopExit(p)
    \/ LoopBody(p)
    \/ Generate(p)
    \/ Cleanup(p)

-----------------------------------------------------------------------------
(* One invocation at a time.                                               *)

FiltIdle ==
    [ called |-> FALSE, filepath |-> <<>>, include_patterns |-> <<>>,
      exclude_patterns |-> <<>>, value |-> FALSE ]

NxIdle == [called |-> FALSE]

IdleRenderer ==
    /\ pc = [p \in Procs |-> "idle"]
    /\ args = [p \in Procs |-> NoArgs]
    /\ remote = [p \in Procs |-> Unreachable]
    /\ include_list = [p \in Procs |-> <<>>]
    /\ exclude_list = [p \in Procs |-> <<>>]
    /\ files = [p \in Procs |-> <<>>]
    /\ idx = [p \in Procs |-> 1]
    /\ analyzed_files = [p \in Procs |-> <<>>]
    /\ output = [p \in Procs |-> <<>>]
    /\ result = [p \in Procs |-> NotReturned]

SeqUrl == <<"a", "/", "r", ".", "g", "i", "t">>

BaseArgs ==
    [ repository_url |-> SeqUrl, max_files |-> MaxFilesBound, max_file_size_kb |-> 1,
      output_format |-> "detailed", branch |-> "main",
      include_patterns |-> <<>>, exclude_patterns |-> <<>>, context_notes |-> <<>> ]

\* The arguments drawn: every limit and pattern setting with the default
\* rendering, and every rendering with the base limits.
SeqArgs ==
    { [BaseArgs EXCEPT !.max_files = n, !.max_file_size_kb = k,
                       !.include_patterns = i, !.exclude_patterns = x] :
        n \in 1..MaxFilesBound, k \in { 1, 2 },
        i \in { <<>>, <<" ", "*", ".", "p", "y", "*", " ", "\n", "\n", "d", "o", "c", "s">> },
        x \in { <<>>, <<"*", ".", "m", "d", "\n">> } }
    \cup
    { [BaseArgs EXCEPT !.output_format = f, !.context_notes = c] :
        f \in Formats, c \in { <<>>, <<"n", "b">> } }

\* The clone directory may be there already, left by an earlier run.
Init ==
    /\ IdleRenderer
    /\ \E d \in { Absent, Leftover } :
         fs = [t \in TempDirs |-> IF t = temp_dir(SeqUrl) THEN d ELSE Absent]
    /\ filt = FiltIdle
    /\ nx = NxIdle

Next ==
    \/ Invoke(1, SeqArgs, Remotes)
    \/ Step(1)

Spec == Init /\ [][Next]_vars

-----------------------------------------------------------------------------
(* Two invocations whose steps interleave.                                 *)

ConcRemotes ==
    { Unreachable,
      [reachable |-> TRUE,
       entries |-> << CHOOSE e \in Catalog : e.path = <<"a", ".", "p", "y">> >>],
      [reachable |-> TRUE,
       entries |-> << CHOOSE e \in Catalog : e.path = <<"b", ".", "m", "d">>,
                      CHOOSE e \in Catalog : e.path = <<"a", ".", "p", "y">> >>] }

ConcArgs == { [BaseArgs EXCEPT !.repository_url = u] : u \in Urls }

InitConc ==
    /\ IdleRenderer
    /\ fs = [t \in TempDirs |-> Absent]
    /\ filt = FiltIdle
    /\ nx = NxIdle

NextConc ==
    \E p \in Procs :
        \/ Invoke(p, ConcArgs, ConcRemotes)
        \/ Step(p)

SpecConc == InitConc /\ [][NextConc]_vars

-----------------------------------------------------------------------------
(* should_process_file as a function of its arguments.                     *)

FilterPaths ==
    { <<"a", ".", "p", "y">>,
      <<"b", ".", "m", "d">>,
      <<"c", ".", "t", "x", "t">>,
      <<"t", ".", "p", "y", "c">>,
      <<"R", "E", "A", "D", "M", "E">>,
      <<"a", ".">>,
      <<".", "e", "n", "v">>,
      <<"x", ".", "m", "i", "n", ".", "j", "s">>,
      <<"s", "r", "c", "/", "m", ".", "p", "y">>,
      <<"s", "r", "c", "/", "x", ".", "m", "i", "n", ".", "j", "s">>,
      <<"v", "e", "n", "v", "/", "x", ".", "p", "y">>,
      <<"d", "i", "s", "t", "/", "z", ".", "j", "s">>,
      <<"l", "i", "b", "/", "d", "i", "s", "t", "/", "y", ".", "j", "s">>,
      <<"s", "r", "c", "/", "c", ".", "t", "x", "t">> }

FilterIncludes ==
    { <<>>,
      << <<"*", ".", "t", "x", "t">> >>,
      << <<"s", "r", "c", "/", "*">>, <<"?", ".", "m", "d">> >>,
      << <<"v", "e", "n", "v", "/", "*">>, <<"*", ".", "p", "y", "c">> >> }

FilterExcludes ==
    { <<>>,
      << <<"*", ".", "m", "d">> >>,
      << <<"s", "r", "c", "/", "*">>, <<"*", ".", "t", "x", "t">> >> }

InitFilter ==
    /\ IdleRenderer
    /\ fs = [t \in TempDirs |-> Absent]
    /\ \E f \in FilterPaths, i \in FilterIncludes, x \in FilterExcludes :
         filt = [ called |-> FALSE, filepath |-> f, include_patterns |-> i,
                  exclude_patterns |-> x, value |-> FALSE ]
    /\ nx = NxIdle

CallShouldProcessFile ==
    /\ ~filt.called
    /\ filt' = [filt EXCEPT
                  !.called = TRUE,
                  !.value = should_process_file(filt.filepath, filt.include_patterns,
                                                filt.exclude_patterns)]
    /\ UNCHANGED << rendererVars, nx >>

NextFilter == CallShouldProcessFile

SpecFilter == InitFilter /\ [][NextFilter]_vars

-----------------------------------------------------------------------------
(* NXMonorepoNode.  A prompt is a sequence of segments: the literal pieces *)
(* of the templates (shortened here) and the argument values put between   *)
(* them.                                                                   *)

ScopeSign == "@"

\* generate_base_prompt: the f-string puts project_name after "Project name: "
\* and after each "@".
generate_base_prompt(project_name) ==
    << "\nTask: Initialize an NX monorepo ... Project name: ", project_name,
       "\n\n1. Initialize a new NX workspace with: ... - Package-based scope (",
       ScopeSign, project_name,
       ") ... 3. Create shared libraries:\n   - ",
       ScopeSign, project_name, "/shared/types ...\n   - ",
       ScopeSign, project_name, "/shared/ui ...\n   - ",
       ScopeSign, project_name, "/shared/utils ...\n   - ",
       ScopeSign, project_name,
       "/shared/api-interfaces ... - Configure dependency management\n" >>

DescriptionLabel == "\n   - Description: "

DefaultDescription ==
    "Initialize NX monorepo structure with standard configuration and best practices"

format_git_instructions(repository_url, base_branch, pr_title, pr_description) ==
    << "\nGit Operations:\n1. Clone the repository: ", repository_url,
       "\n2. Create a new branch from ", base_branch,
       "\n3. ... 5. Create a pull request with:\n   - Title: ", pr_title,
       "\n   - Base branch: ", base_branch,
       DescriptionLabel,
       IF pr_description # "" THEN pr_description ELSE DefaultDescription,
       "\n\nPlease include in the PR description: ...\n" >>

CustomHeader == "\nCustom Requirements:"

AppsHeader == "\nAdditional Applications:\n"

LibsHeader == "\nAdditional Libraries:\n"

DepsHeader == "\nAdditional Dependencies:\n"

\* A variant that opens the section only for additional applications.
custom_requirements_apps_only(additional_apps, additional_libs, custom_dependencies) ==
    IF additional_apps # ""
    THEN << << CustomHeader >>, << AppsHeader, additional_apps >> >>
         \o (IF additional_libs # "" THEN << << LibsHeader, additional_libs >> >> ELSE <<>>)
         \o (IF custom_dependencies # ""
             THEN << << DepsHeader, custom_dependencies >> >> ELSE <<>>)
    ELSE <<>>

\* Lines 140-147 of execute: the parts appended for the custom fields.
custom_requirements(additional_apps, additional_libs, custom_dependencies) ==
    IF additional_apps # "" \/ additional_libs # "" \/ custom_dependencies # ""
    THEN << << CustomHeader >> >>
         \o (IF additional_apps # "" THEN << << AppsHeader, additional_apps >> >> ELSE <<>>)
         \o (IF additional_libs # "" THEN << << LibsHeader, additional_libs >> >> ELSE <<>>)
         \o (IF custom_dependencies # ""
             THEN << << DepsHeader, custom_dependencies >> >> ELSE <<>>)
    ELSE <<>>

\* "\n".join(prompt_parts)
RECURSIVE join_parts(_)
join_parts(parts) ==
    IF parts = <<>> THEN <<>>
    ELSE IF Len(parts) = 1 THEN Head(parts)
    ELSE Head(parts) \o << "\n" >> \o join_parts(Tail(parts))

\* Lines 133-164 of execute.
final_prompt(a) ==
    join_parts(
        << << "# NX Monorepo Generation and PR Creation\n" >>,
           generate_base_prompt(a.project_name) >>
        \o custom_requirements(a.additional_apps, a.additional_libs,
                               a.custom_dependencies)
        \o (IF a.positive_prompt # ""
            THEN << << "\nAdditional Requirements to Include:\n", a.positive_prompt >> >>
            ELSE <<>>)
        \o (IF a.negative_prompt # ""
            THEN << << "\nRequirements to Avoid:\n", a.negative_prompt >> >>
            ELSE <<>>)
        \o << format_git_instructions(a.repository_url, a.base_branch, a.pr_title,
                                      a.pr_description) >>)

\* send_to_cursor (of CodeGenNodeBase): it answers with some text, or fails.
CursorOutcomes ==
    { [kind |-> "returned", value |-> << "response" >>],
      [kind |-> "raised", value |-> <<>>] }

NxArgs ==
    [ project_name        : { "demo", "my-nx-project" },
      positive_prompt     : { "", "use pnpm" },
      negative_prompt     : { "", "no yarn" },
      repository_url      : { "https://example.org/r.git" },
      base_branch         : { "main" },
      pr_title            : { "feat: Initialize NX monorepo structure" },
      additional_apps     : { "", "mobile app" },
      additional_libs     : { "", "auth lib" },
      custom_dependencies : { "", "zod" },
      pr_description      : { "", "Adds the workspace" } ]

InitNx ==
    /\ IdleRenderer
    /\ fs = [t \in TempDirs |-> Absent]
    /\ filt = FiltIdle
    /\ \E a \in NxArgs :
         nx = [ called |-> FALSE, args |-> a, prompt |-> <<>>,
                result |-> NotReturned ]

\* NXMonorepoNode.execute: the prompt is assembled and handed to
\* send_to_cursor, whose answer is returned as it is.
NxExecute ==
    /\ ~nx.called
    /\ \E r \in CursorOutcomes :
         nx' = [nx EXCEPT !.called = TRUE,
                          !.prompt = final_prompt(nx.args),
                          !.result = r]
    /\ UNCHANGED << rendererVars, filt >>

NextNx == NxExecute

SpecNx == InitNx /\ [][NextNx]_vars

-----------------------------------------------------------------------------
(* Properties of one invocation, checked under Spec.                       *)

Running(p) == pc[p] \notin { "idle", "done" }

\* The text execute returned is the error message of its handler.
IsError(r) ==
    /\ r.kind = "returned"
    /\ \E i \in DOMAIN r.value[1] : r.value[1][i].k = "error"

\* execute returned a rendered report.
ReturnedReport(p) ==
    /\ pc[p] = "done"
    /\ result[p].kind = "returned"
    /\ ~IsError(result[p])

ReturnedText(p) == result[p].value[1]

RECURSIVE SumCounts(_)
SumCounts(types) ==
    IF types = <<>> THEN 0 ELSE Head(types).count + SumCounts(Tail(types))

\* How many files a report describes: its file sections, or the sum of its
\* per-extension counts.
DescribedFiles(text) ==
    LET sections == { i \in DOMAIN text : text[i].k \in { "file", "preview" } }
        counts   == { i \in DOMAIN text : text[i].k = "types" }
    IN  Cardinality(sections)
        + (IF counts = {} THEN 0
           ELSE SumCounts(text[CHOOSE i \in counts : TRUE].types))

\* The entries of the clone that pass os.path.isfile and the pattern/extension
\* filter, in enumeration order.
FilterAccepted(p) ==
    SelectSeq(remote[p].entries,
              LAMBDA e : e.isfile /\ should_process_file(e.path, include_list[p],
                                                         exclude_list[p]))

Oversized(p, e) == e.bytes > args[p].max_file_size_kb * BytesPerKb

\* Filter-accepted entries whose size can be measured and is within the limit
\* and whose content reads as text.
Qualifying(p) ==
    SelectSeq(FilterAccepted(p),
              LAMBDA e : e.stat = "ok" /\ ~Oversized(p, e) /\ e.read = "ok")

FullPath(p, e) == path_join(repo_dir(p), e.path)

Min(a, b) == IF a <= b THEN a ELSE b

\* C1: when execute has returned (a report or an error string), the clone
\* directory temp_repos/<stem> this invocation created does not exist.
C1_CloneRemovedOnReturn ==
    \A p \in Procs :
        pc[p] = "done" =>
            ~(fs[repo_dir(p)].exists /\ fs[repo_dir(p)].owner = p)

\* C2: execute never raises to its caller; once it has ended, its outcome is
\* a returned one-element tuple (the report or an error message).
C2_NeverRaises ==
    \A p \in Procs :
        /\ result[p].kind # "raised"
        /\ pc[p] = "done" =>
              result[p].kind = "returned" /\ Len(result[p].value) = 1

\* A clone failure has been turned into a returned error message.
C2_Witness ==
    \E p \in Procs :
        /\ pc[p] = "done"
        /\ IsError(result[p])
        /\ ReturnedText(p)[1].exc = "GitCommandError"

\* C3: at every point of the traversal the number of accepted files is at
\* most max_files, and a returned report describes at most max_files files.
C3_AtMostMaxFiles ==
    \A p \in Procs :
        /\ Len(analyzed_files[p]) <= args[p].max_files
        /\ ReturnedReport(p) => DescribedFiles(ReturnedText(p)) <= args[p].max_files

\* The break fired: max_files files are accepted and entries are left over.
C3_Witness ==
    \E p \in Procs :
        /\ pc[p] = "generate"
        /\ Len(analyzed_files[p]) = args[p].max_files
        /\ idx[p] <= Len(files[p])

\* C5: a file whose measured size exceeds max_file_size_kb is never among the
\* accepted records, and no section of the rendered or returned text is about it.
C5_OversizedNeverIncluded ==
    \A p \in Procs :
        \A i \in DOMAIN remote[p].entries :
            LET e == remote[p].entries[i]
                about(text) == { j \in DOMAIN text :
                                   /\ text[j].k \in { "file", "preview" }
                                   /\ text[j].path = FullPath(p, e) }
            IN  (e.stat = "ok" /\ Oversized(p, e)) =>
                  /\ \A j \in DOMAIN analyzed_files[p] :
                         analyzed_files[p][j].path # FullPath(p, e)
                  /\ about(output[p]) = {}
                  /\ ReturnedReport(p) => about(ReturnedText(p)) = {}

\* The traversal has gone past a filter-accepted oversized file and a report
\* was returned.
C5_Witness ==
    \E p \in Procs :
        /\ ReturnedReport(p)
        /\ \E i \in 1..(idx[p] - 1) :
              LET e == remote[p].entries[i]
              IN  /\ e.isfile /\ e.stat = "ok" /\ Oversized(p, e)
                  /\ should_process_file(e.path, include_list[p], exclude_list[p])

\* The part of a report after its context notes and title.
Body(text) == SelectSeq(text, LAMBDA item : item.k \notin { "context", "title" })

\* C6: output_format fixes how much content a report holds: 'architecture'
\* none (directories and per-extension counts only); 'summary' per file the
\* whole content when it has at most 200 characters, else its first 200
\* characters followed by '...'; any other value the complete content.
C6_ContentByFormat ==
    \A p \in Procs :
        ReturnedReport(p) =>
            LET body == Body(ReturnedText(p))
                fls  == analyzed_files[p]
                dots == << ".", ".", "." >>
            IN  IF args[p].output_format = "architecture"
                THEN \A i \in DOMAIN body : body[i].k \in { "dirs", "types" }
                ELSE /\ Len(body) = Len(fls)
                     /\ \A i \in DOMAIN body :
                          IF args[p].output_format = "summary"
                          THEN /\ body[i].k = "preview"
                               /\ Len(fls[i].content) <= 200 =>
                                      body[i].content = fls[i].content
                               /\ Len(fls[i].content) > 200 =>
                                      body[i].content =
                                          SubSeq(fls[i].content, 1, 200) \o dots
                          ELSE /\ body[i].k = "file"
                               /\ body[i].content = fls[i].content

\* A summary was returned that holds a file of exactly 200 characters whole
\* and a longer one cut.
C6_Witness ==
    \E p \in Procs :
        /\ ReturnedReport(p)
        /\ args[p].output_format = "summary"
        /\ \E i, j \in DOMAIN analyzed_files[p] :
              /\ Len(analyzed_files[p][i].content) = 200
              /\ Len(analyzed_files[p][j].content) > 200
              /\ Len(Body(ReturnedText(p))[j].content) = 203

\* C9 as stated: the files of a returned report are drawn only from the first
\* max_files filter-accepted entries in enumeration order (a file skipped as
\* oversized or undecodable still counts toward max_files).
C9_SkippedFilesCount ==
    \A p \in Procs :
        ReturnedReport(p) =>
            \A j \in DOMAIN analyzed_files[p] :
                \E i \in 1..Min(args[p].max_files, Len(FilterAccepted(p))) :
                    analyzed_files[p][j].path = FullPath(p, FilterAccepted(p)[i])

\* C9 amended: only files that pass the filter and are analysed successfully
\* count toward max_files.  Whenever max_files files are accepted, the entry
\* visited last is the one accepted last, and a returned report holds exactly
\* the first max_files qualifying entries in enumeration order (all of them
\* when fewer qualify).
C9_OnlyAnalyzedFilesCount ==
    \A p \in Procs :
        LET n == args[p].max_files
            q == Qualifying(p)
        IN  /\ (pc[p] \in { "loop", "generate", "cleanup" }
                /\ Len(analyzed_files[p]) = n) =>
                   /\ idx[p] > 1
                   /\ files[p][idx[p] - 1] = analyzed_files[p][n].path
            /\ ReturnedReport(p) =>
                   /\ Len(analyzed_files[p]) = Min(n, Len(q))
                   /\ \A i \in DOMAIN analyzed_files[p] :
                          analyzed_files[p][i].path = FullPath(p, q[i])

\* A report was returned that holds max_files files, one of them from beyond
\* the first max_files filter-accepted entries.
C9_Witness ==
    \E p \in Procs :
        /\ ReturnedReport(p)
        /\ Len(analyzed_files[p]) = args[p].max_files
        /\ \E j \in DOMAIN analyzed_files[p] :
              \A i \in 1..Min(args[p].max_files, Len(FilterAccepted(p))) :
                  analyzed_files[p][j].path # FullPath(p, FilterAccepted(p)[i])

\* C10: after a successful clone, a failure on one file (size not measurable,
\* not readable, not decodable, oversized) never turns the result into an error
\* string: execute returns a report.
C10_PerFileFailuresNonFatal ==
    \A p \in Procs :
        (pc[p] = "done" /\ remote[p].reachable) => ReturnedReport(p)

-----------------------------------------------------------------------------
(* Properties of the filter, checked under SpecFilter.                     *)

Matches(filepath, patterns) ==
    \E i \in DOMAIN patterns : fnmatch(filepath, patterns[i])

\* C4: the decision of should_process_file follows this precedence: rejected
\* when the path matches a pattern of the fixed ignore set or of the exclude
\* list; otherwise, with a non-empty include list, accepted exactly when it
\* matches an include pattern, whatever its extension; otherwise accepted
\* exactly when its extension is supported.
C4_FilterPrecedence ==
    filt.called =>
        LET f == filt.filepath
        IN  /\ (Matches(f, IGNORE_PATTERNS) \/ Matches(f, filt.exclude_patterns))
                  => ~filt.value
            /\ (/\ ~Matches(f, IGNORE_PATTERNS)
                /\ ~Matches(f, filt.exclude_patterns)
                /\ filt.include_patterns # <<>>)
                  => (filt.value <=> Matches(f, filt.include_patterns))
            /\ (/\ ~Matches(f, IGNORE_PATTERNS)
                /\ ~Matches(f, filt.exclude_patterns)
                /\ filt.include_patterns = <<>>)
                  => (filt.value <=> path_suffix(f) \in SUPPORTED_EXTENSIONS)

\* The filter rejected a path that matches both an ignore pattern and an
\* include pattern.
C4_Witness ==
    /\ filt.called
    /\ Matches(filt.filepath, IGNORE_PATTERNS)
    /\ Matches(filt.filepath, filt.include_patterns)
    /\ ~filt.value

-----------------------------------------------------------------------------
(* Properties of interleaved invocations, checked under SpecConc.          *)

\* C8: the clone directory an invocation created is its own while it runs: no
\* other invocation deletes or overwrites it, and an invocation lists only a
\* directory it owns.
C8_ExclusiveClone ==
    [][ /\ \A q \in Procs : \A d \in TempDirs :
              (Running(q) /\ fs[d].exists /\ fs[d].owner = q /\ fs'[d] # fs[d])
                  => pc'[q] # pc[q]
        /\ \A p \in Procs :
              (pc[p] = "glob" /\ pc'[p] = "loop" /\ fs[repo_dir(p)].exists)
                  => fs[repo_dir(p)].owner = p ]_vars

-----------------------------------------------------------------------------
(* Properties of the assembled prompt, checked under SpecNx.               *)

HasSegment(text, seg) == \E i \in DOMAIN text : text[i] = seg

\* seg occurs in text with val right after it.
FollowedBy(text, seg, val) ==
    \E i \in DOMAIN text : text[i] = seg /\ i < Len(text) /\ text[i + 1] = val

\* seg occurs in text somewhere after the first occurrence of header.
Within(text, header, seg) ==
    \E i, j \in DOMAIN text : i < j /\ text[i] = header /\ text[j] = seg

\* C7: the prompt holds the 'Custom Requirements:' section exactly when one of
\* additional_apps, additional_libs, custom_dependencies is non-empty, with
\* each sub-section exactly when its field is non-empty; the git instructions
\* carry pr_description when it is non-empty and the default text otherwise;
\* with project_name 'demo' and no optional field the prompt holds '@demo' and
\* the default description and no 'Custom Requirements' section.
C7_PromptSections ==
    nx.called =>
        LET a == nx.args
            t == nx.prompt
            sub(header, field) ==
                /\ HasSegment(t, header) <=> field # ""
                /\ field # "" => /\ FollowedBy(t, header, field)
                                 /\ Within(t, CustomHeader, header)
        IN  /\ HasSegment(t, CustomHeader) <=>
                  (a.additional_apps # "" \/ a.additional_libs # ""
                   \/ a.custom_dependencies # "")
            /\ sub(AppsHeader, a.additional_apps)
            /\ sub(LibsHeader, a.additional_libs)
            /\ sub(DepsHeader, a.custom_dependencies)
            /\ a.pr_description # "" => FollowedBy(t, DescriptionLabel, a.pr_description)
            /\ a.pr_description = "" => FollowedBy(t, DescriptionLabel, DefaultDescription)
            /\ (/\ a.project_name = "demo"
                /\ a.additional_apps = "" /\ a.additional_libs = ""
                /\ a.custom_dependencies = "" /\ a.pr_description = "")
                  => /\ FollowedBy(t, "@", "demo")
                     /\ FollowedBy(t, DescriptionLabel, DefaultDescription)
                     /\ ~HasSegment(t, CustomHeader)

\* A prompt was assembled with only additional_libs given: the section is
\* there for the libraries alone.
C7_Witness ==
    /\ nx.called
    /\ nx.args.additional_apps = ""
    /\ nx.args.additional_libs # ""
    /\ nx.args.custom_dependencies = ""
    /\ HasSegment(nx.prompt, CustomHeader)
    /\ ~HasSegment(nx.prompt, AppsHeader)

=============================================================================
